---- MODULE Spec2Model ----
(***************************************************************************)
(* Model of freetype/geom (24.8 fixed point Points) and of freetype/raster *)
(* Path: a []Fix32 that encodes curves as tag-framed records.              *)
(*                                                                         *)
(* A Go slice is modelled as a header (ptr, len) into a heap of backing    *)
(* arrays; cap is the length of the backing array.  Go indices are         *)
(* 0-based, TLA+ sequences 1-based: Store and Load do the shift.           *)
(***************************************************************************)
EXTENDS Integers, Sequences, FiniteSets, TLC

VARIABLES
    mem,    \* heap: backing arrays of the Paths, <<>> for a free slot
    hdr,    \* slice header (ptr, len) of each Path variable
    log,    \* history: per Path, the calls made on it since it was last new or Cleared
    str,    \* result of the last Path.String() call, NoResult if none is pending
    walk,   \* addPathReversed in progress: its source, target, index i and status
    pt,     \* Point under arithmetic
    kk,     \* scalar argument of Point.Mul
    res,    \* the operation last applied to pt, and its result
    clears, \* number of Clear calls made so far
    cnt     \* number of Rot45CW calls chained so far

vars == <<mem, hdr, log, str, clears, walk, pt, kk, res, cnt>>

----------------------------------------------------------------------------
(* Bounds of the model *)

\* longest Path (in scalars) the builder calls of Spec may produce
MaxBuild == 22
\* longest Path the builder calls of SpecPath and SpecCat may produce
MaxLen == 12
\* longest Path an AddPath of SpecPath and SpecCat may produce
MaxCat == 18
\* most calls made on one Path since it was new or last Cleared
MaxCalls == 5
\* most Clear calls in one behaviour
MaxClears == 1
\* most Rot45CW calls chained on one Point
MaxRot == 8
\* longest Path the builder calls of SpecRev may produce
MaxRevLen == 18

Names == {"p", "q", "r", "t"}
ArrIds == 1..4

Pt(x, y) == [X |-> x, Y |-> y]
PA == Pt(1, 3)
PB == Pt(-2, 0)
PC == Pt(259, -513)
Pts == {PA, PB}
\* the points of the Paths that are traversed in reverse
RevPts == {PA, PB, PC}
\* the point of the builder calls in SpecPath, SpecCat and SpecWalk
PathPts == {PA}

NoResult == [status |-> "none"]

----------------------------------------------------------------------------
(* Slices and the heap *)

NilPath == [ptr |-> 0, len |-> 0]

CapOf(m, h) == IF h.ptr = 0 THEN 0 ELSE Len(m[h.ptr])

\* the elements p[0:len(p)]
Contents(m, h) == IF h.ptr = 0 THEN <<>> ELSE SubSeq(m[h.ptr], 1, h.len)

\* p[i], for an i the caller knows to be in range
Load(m, h, i) == m[h.ptr][i + 1]

\* (*p)[i] = v
Store(w, i, v) == [w EXCEPT !.mem[w.p.ptr][i + 1] = v]

\* make: the lowest free slot of the heap
Alloc(m) == CHOOSE a \in DOMAIN m : m[a] = <<>> /\ \A b \in DOMAIN m : b < a => m[b] # <<>>

\* garbage collection: an array no header in hs points to is freed
Collect(m, hs) == [a \in DOMAIN m |-> IF \E h \in hs : h.ptr = a THEN m[a] ELSE <<>>]

\* func (p *Path) grow(n int)
growRealloc(m, h, n) ==
    LET a   == Alloc(m)
        arr == [i \in 1..(2 * n + 8) |-> IF i <= h.len THEN m[h.ptr][i] ELSE 0]
    IN  [mem |-> [m EXCEPT ![a] = arr], p |-> [ptr |-> a, len |-> n]]

growReslice(m, h, n) == [mem |-> m, p |-> [h EXCEPT !.len = n]]

grow(m, h, n0) ==
    LET n == n0 + h.len
    IN  IF n > CapOf(m, h) THEN growRealloc(m, h, n) ELSE growReslice(m, h, n)

\* mutant of Clear: the length is kept
ClearKeepsLen(m, h) == [mem |-> m, p |-> h]

\* func (p *Path) Clear()
Clear(m, h) == [mem |-> m, p |-> [h EXCEPT !.len = 0]]

\* mutant of Start: the closing tag is not written
StartNoClosingTag(m, h, a) ==
    LET n == h.len
        g == grow(m, h, 4)
    IN  Store(Store(Store(g, n, 0), n + 1, a.X), n + 2, a.Y)

\* func (p *Path) Start(a geom.Point)
Start(m, h, a) ==
    LET n == h.len
        g == grow(m, h, 4)
    IN  Store(Store(Store(Store(g, n, 0), n + 1, a.X), n + 2, a.Y), n + 3, 0)

\* func (p *Path) Add1(b geom.Point)
Add1(m, h, b) ==
    LET n == h.len
        g == grow(m, h, 4)
    IN  Store(Store(Store(Store(g, n, 1), n + 1, b.X), n + 2, b.Y), n + 3, 1)

\* mutant of Add2: the two points are written in the other order
Add2Swapped(m, h, b, c) ==
    LET n  == h.len
        g  == grow(m, h, 6)
        s1 == Store(Store(Store(g, n, 2), n + 1, c.X), n + 2, c.Y)
    IN  Store(Store(Store(s1, n + 3, b.X), n + 4, b.Y), n + 5, 2)

\* func (p *Path) Add2(b, c geom.Point)
Add2(m, h, b, c) ==
    LET n  == h.len
        g  == grow(m, h, 6)
        s1 == Store(Store(Store(g, n, 2), n + 1, b.X), n + 2, b.Y)
    IN  Store(Store(Store(s1, n + 3, c.X), n + 4, c.Y), n + 5, 2)

\* func (p *Path) Add3(b, c, d geom.Point)
Add3(m, h, b, c, d) ==
    LET n  == h.len
        g  == grow(m, h, 8)
        s1 == Store(Store(Store(g, n, 3), n + 1, b.X), n + 2, b.Y)
        s2 == Store(Store(s1, n + 3, c.X), n + 4, c.Y)
    IN  Store(Store(Store(s2, n + 5, d.X), n + 6, d.Y), n + 7, 3)

\* mutant of AddPath: an empty receiver takes over the argument's storage
AddPathShares(m, h, q) ==
    LET n == h.len
        k == q.len
        g == grow(m, h, k)
    IN  IF k = 0 THEN g
        ELSE IF n = 0 THEN [mem |-> m, p |-> q]
        ELSE [g EXCEPT !.mem[g.p.ptr] =
                 [i \in DOMAIN @ |-> IF n < i /\ i <= n + k THEN g.mem[q.ptr][i - n] ELSE @[i]]]

\* func (p *Path) AddPath(q Path): copy reads q as it is when copy is called
AddPath(m, h, q) ==
    LET n == h.len
        k == q.len
        g == grow(m, h, k)
    IN  IF k = 0 THEN g
        ELSE [g EXCEPT !.mem[g.p.ptr] =
                 [i \in DOMAIN @ |-> IF n < i /\ i <= n + k THEN g.mem[q.ptr][i - n] ELSE @[i]]]

\* func (p Path) lastPoint() geom.Point, for a p of at least 3 elements
lastPoint(m, h) == Pt(Load(m, h, h.len - 3), Load(m, h, h.len - 2))

----------------------------------------------------------------------------
(* Diagnostic decoding *)

\* Go's integer division truncates toward zero (b > 0)
Quot(a, b) == IF a >= 0 \/ a % b = 0 THEN a \div b ELSE (a \div b) + 1

\* func (x Fix32) String(): sign, integer part, ":", fraction in 3 digits
Fix32String(x) ==
    IF x < 0 THEN [neg |-> TRUE, int |-> Quot(-x, 256), frac |-> (-x) % 256]
    ELSE [neg |-> FALSE, int |-> Quot(x, 256), frac |-> x % 256]

\* fmt.Sprint([]geom.Fix32(p[lo:hi])): slicing is checked against cap(p), not len(p)
SliceOK(m, h, hi) == hi <= CapOf(m, h)
Sprint(m, h, lo, hi) == [j \in 1..(hi - lo) |-> Fix32String(Load(m, h, lo + j - 1))]

\* mutant of TagKind: a tag the switch does not know is skipped
TagKindLenient(t) ==
    CASE t = 0 -> "S0" [] t = 1 -> "A1" [] t = 2 -> "A2" [] t = 3 -> "A3" [] OTHER -> "skip"

\* the cases of the switch in String(); default panics
TagKind(t) ==
    CASE t = 0 -> "S0" [] t = 1 -> "A1" [] t = 2 -> "A2" [] t = 3 -> "A3" [] OTHER -> "bad"

\* func (p Path) String(): the loop from index i with the tokens s so far
RECURSIVE StringFrom(_, _, _, _)
StringFrom(m, h, i, s) ==
    IF ~(i < h.len) THEN [status |-> "ok", toks |-> s, i |-> i]
    ELSE LET t    == Load(m, h, i)
             kind == TagKind(t)
             n    == CASE t = 0 -> 2 [] t = 1 -> 2 [] t = 2 -> 4 [] t = 3 -> 6 [] OTHER -> 0
         IN  IF kind = "bad" THEN [status |-> "panic", toks |-> s, i |-> i]
             ELSE IF ~SliceOK(m, h, i + 1 + n) THEN [status |-> "panic", toks |-> s, i |-> i]
             ELSE StringFrom(m, h, i + n + 2,
                             Append(s, [kind |-> kind, coords |-> Sprint(m, h, i + 1, i + 1 + n)]))

String(m, h) == StringFrom(m, h, 0, <<>>)

----------------------------------------------------------------------------
(* Calls, as data: the builder calls of the Adder interface, and AddPath *)

CStart(a) == [op |-> "Start", args |-> <<a>>, q |-> <<>>]
CAdd1(b) == [op |-> "Add1", args |-> <<b>>, q |-> <<>>]
CAdd2(b, c) == [op |-> "Add2", args |-> <<b, c>>, q |-> <<>>]
CAdd3(b, c, d) == [op |-> "Add3", args |-> <<b, c, d>>, q |-> <<>>]
CAddPath(buf) == [op |-> "AddPath", args |-> <<>>, q |-> buf]

\* a caller's Path holding exactly buf, in storage of its own
ArgPath(m, buf) ==
    IF buf = <<>> THEN [mem |-> m, p |-> NilPath]
    ELSE LET a == Alloc(m) IN [mem |-> [m EXCEPT ![a] = buf], p |-> [ptr |-> a, len |-> Len(buf)]]

\* one call e on the Path h
ApplyCall(m, h, e) ==
    CASE e.op = "Start" -> Start(m, h, e.args[1])
      [] e.op = "Add1" -> Add1(m, h, e.args[1])
      [] e.op = "Add2" -> Add2(m, h, e.args[1], e.args[2])
      [] e.op = "Add3" -> Add3(m, h, e.args[1], e.args[2], e.args[3])
      [] e.op = "AddPath" -> LET a == ArgPath(m, e.q) IN AddPath(a.mem, h, a.p)

\* the calls of l, in order, on the Path h; storage that neither the Path nor
\* a header of keep holds is collected
RECURSIVE ApplyAll(_, _, _, _)
ApplyAll(m, h, l, keep) ==
    IF l = <<>> THEN [mem |-> m, p |-> h]
    ELSE LET w == ApplyCall(m, h, Head(l))
         IN  ApplyAll(Collect(w.mem, {w.p} \cup keep), w.p, Tail(l), keep)

EmptyHeap == [a \in ArrIds |-> <<>>]

\* the calls of l on a brand-new Path (var p Path)
Replay(l) == ApplyAll(EmptyHeap, NilPath, l, {})
Built(l) == LET w == Replay(l) IN Contents(w.mem, w.p)

\* encoded length each call appends
CallLen(e) ==
    CASE e.op = "Start" -> 4 [] e.op = "Add1" -> 4 [] e.op = "Add2" -> 6 [] e.op = "Add3" -> 8
      [] e.op = "AddPath" -> Len(e.q)

----------------------------------------------------------------------------
(* Specification Spec: one Path p driven through its whole interface *)

\* the Paths a caller hands to p.AddPath
QInputs ==
    { Built(<<>>),
      Built(<<CStart(PA), CAdd2(PB, PA)>>),
      Built(<<CStart(PB), CAdd1(PA), CAdd2(PA, PB)>>) }

IdleWalk == [status |-> "idle", src |-> "q", dst |-> "r", i |-> 0, base |-> 0]

Init ==
    /\ mem = EmptyHeap
    /\ hdr = [x \in Names |-> NilPath]
    /\ log = [x \in Names |-> <<>>]
    /\ str = NoResult
    /\ clears = 0
    /\ walk = IdleWalk
    /\ pt = Pt(0, 0) /\ kk = 0 /\ res = NoResult /\ cnt = 0

Live(hs) == {hs[x] : x \in Names}

\* the call e on the Path variable x, the result no longer than max
Do(x, e, max) ==
    /\ hdr[x].len + CallLen(e) <= max
    /\ Len(log[x]) < MaxCalls
    /\ LET w  == ApplyCall(mem, hdr[x], e)
           hs == [hdr EXCEPT ![x] = w.p]
       IN  /\ hdr' = hs
           /\ mem' = Collect(w.mem, Live(hs))
    /\ log' = [log EXCEPT ![x] = Append(@, e)]
    /\ str' = NoResult
    /\ UNCHANGED <<clears, walk, pt, kk, res, cnt>>

StartAct(x, ps, max) == \E a \in ps : Do(x, CStart(a), max)
Add1Act(x, ps, max) == \E b \in ps : Do(x, CAdd1(b), max)
Add2Act(x, ps, max) == \E b, c \in ps : Do(x, CAdd2(b, c), max)
Add3Act(x, ps, max) == \E b, c, d \in ps : Do(x, CAdd3(b, c, d), max)

\* p.AddPath(q), q in storage of its own
AddPathAct(x) == \E buf \in QInputs : Do(x, CAddPath(buf), MaxCat)

\* p.AddPath(*p): the argument is the receiver's own slice
AddSelfAct(x) ==
    /\ hdr[x].len > 0
    /\ 2 * hdr[x].len <= MaxCat
    /\ Len(log[x]) < MaxCalls
    /\ LET w  == AddPath(mem, hdr[x], hdr[x])
           hs == [hdr EXCEPT ![x] = w.p]
       IN  /\ hdr' = hs
           /\ mem' = Collect(w.mem, Live(hs))
    /\ log' = [log EXCEPT ![x] = Append(@, CAddPath(Contents(mem, hdr[x])))]
    /\ str' = NoResult
    /\ UNCHANGED <<clears, walk, pt, kk, res, cnt>>

ClearAct(x) ==
    /\ clears < MaxClears
    /\ clears' = clears + 1
    /\ LET w == Clear(mem, hdr[x]) IN hdr' = [hdr EXCEPT ![x] = w.p] /\ mem' = w.mem
    /\ log' = [log EXCEPT ![x] = <<>>]
    /\ str' = NoResult
    /\ UNCHANGED <<walk, pt, kk, res, cnt>>

StringAct(x) ==
    /\ str = NoResult
    /\ str' = String(mem, hdr[x])
    /\ UNCHANGED <<mem, hdr, log, clears, walk, pt, kk, res, cnt>>

\* Spec: the builder calls on a Path that starts empty, and its decoding
Next ==
    \/ StartAct("p", Pts, MaxBuild)
    \/ Add1Act("p", Pts, MaxBuild)
    \/ Add2Act("p", Pts, MaxBuild)
    \/ Add3Act("p", Pts, MaxBuild)
    \/ StringAct("p")

Spec == Init /\ [][Next]_vars

\* SpecPath: the whole interface of one Path, Clear and AddPath included
NextPath ==
    \/ StartAct("p", PathPts, MaxLen)
    \/ Add1Act("p", PathPts, MaxLen)
    \/ Add2Act("p", PathPts, MaxLen)
    \/ Add3Act("p", PathPts, MaxLen)
    \/ AddPathAct("p")
    \/ AddSelfAct("p")
    \/ ClearAct("p")

SpecPath == Init /\ [][NextPath]_vars

----------------------------------------------------------------------------
(* Specification SpecCat: a Path p and two Paths q and r in storage of their own *)

\* the builder calls q and r are made of
CatLogs == { <<>>, <<CStart(PB)>>, <<CStart(PB), CAdd2(PA, PB)>> }

InitCat ==
    /\ \E lq, lr \in CatLogs :
         LET wq == ApplyAll(EmptyHeap, NilPath, lq, {})
             wr == ApplyAll(wq.mem, NilPath, lr, {wq.p})
         IN  /\ mem = wr.mem
             /\ hdr = [x \in Names |-> CASE x = "q" -> wq.p [] x = "r" -> wr.p [] OTHER -> NilPath]
             /\ log = [x \in Names |-> CASE x = "q" -> lq [] x = "r" -> lr [] OTHER -> <<>>]
    /\ str = NoResult
    /\ clears = 0
    /\ walk = IdleWalk
    /\ pt = Pt(0, 0) /\ kk = 0 /\ res = NoResult /\ cnt = 0

\* x.AddPath(y) for two Path variables
CatAct(x, y) ==
    /\ hdr[x].len + hdr[y].len <= MaxCat
    /\ Len(log[x]) < MaxCalls
    /\ LET w  == AddPath(mem, hdr[x], hdr[y])
           hs == [hdr EXCEPT ![x] = w.p]
       IN  /\ hdr' = hs
           /\ mem' = Collect(w.mem, Live(hs))
    /\ log' = [log EXCEPT ![x] = Append(@, CAddPath(Contents(mem, hdr[y])))]
    /\ str' = NoResult
    /\ UNCHANGED <<clears, walk, pt, kk, res, cnt>>

NextCat ==
    \/ StartAct("p", PathPts, MaxLen)
    \/ Add1Act("p", PathPts, MaxLen)
    \/ Add2Act("p", PathPts, MaxLen)
    \/ Add3Act("p", PathPts, MaxLen)
    \/ CatAct("p", "q")
    \/ CatAct("p", "r")
    \/ ClearAct("p")

SpecCat == InitCat /\ [][NextCat]_vars

----------------------------------------------------------------------------
(* Reverse traversal: func addPathReversed(p Adder, q Path) *)

\* q[i] panics unless 0 <= i < len(q)
InRange(h, i) == 0 <= i /\ i < h.len

\* mutant of RevStride: a cubic record is taken to be as long as a quadratic one
RevStrideShortCubic(t) == CASE t = 1 -> 4 [] t = 2 -> 6 [] t = 3 -> 6

\* i -= 4, i -= 6, i -= 8 of the cases 1, 2, 3
RevStride(t) == CASE t = 1 -> 4 [] t = 2 -> 6 [] t = 3 -> 8

\* mutant of RevCallFor: the controls of a cubic keep their order
RevCallForKeepsOrder(m, q, i, t) ==
    CASE t = 1 -> CAdd1(Pt(Load(m, q, i - 2), Load(m, q, i - 1)))
      [] t = 2 -> CAdd2(Pt(Load(m, q, i + 2), Load(m, q, i + 3)),
                        Pt(Load(m, q, i - 2), Load(m, q, i - 1)))
      [] t = 3 -> CAdd3(Pt(Load(m, q, i + 2), Load(m, q, i + 3)),
                        Pt(Load(m, q, i + 4), Load(m, q, i + 5)),
                        Pt(Load(m, q, i - 2), Load(m, q, i - 1)))

\* mutant of RevCallFor: a line ends at its own end point, not at the point before it
RevCallForOwnEnd(m, q, i, t) ==
    CASE t = 1 -> CAdd1(Pt(Load(m, q, i + 2), Load(m, q, i + 3)))
      [] t = 2 -> CAdd2(Pt(Load(m, q, i + 2), Load(m, q, i + 3)),
                        Pt(Load(m, q, i - 2), Load(m, q, i - 1)))
      [] t = 3 -> CAdd3(Pt(Load(m, q, i + 4), Load(m, q, i + 5)),
                        Pt(Load(m, q, i + 2), Load(m, q, i + 3)),
                        Pt(Load(m, q, i - 2), Load(m, q, i - 1)))

\* the call of case t, i already decremented
RevCallFor(m, q, i, t) ==
    CASE t = 1 -> CAdd1(Pt(Load(m, q, i - 2), Load(m, q, i - 1)))
      [] t = 2 -> CAdd2(Pt(Load(m, q, i + 2), Load(m, q, i + 3)),
                        Pt(Load(m, q, i - 2), Load(m, q, i - 1)))
      [] t = 3 -> CAdd3(Pt(Load(m, q, i + 4), Load(m, q, i + 5)),
                        Pt(Load(m, q, i + 2), Load(m, q, i + 3)),
                        Pt(Load(m, q, i - 2), Load(m, q, i - 1)))

\* the caller's dst.Start(src.lastPoint()) that precedes addPathReversed(dst, src)
TargetAct ==
    /\ walk.status = "idle"
    /\ hdr[walk.src].len >= 3
    /\ LET w  == Start(mem, hdr[walk.dst], lastPoint(mem, hdr[walk.src]))
           hs == [hdr EXCEPT ![walk.dst] = w.p]
       IN  /\ hdr' = hs
           /\ mem' = Collect(w.mem, Live(hs))
    /\ log' = [log EXCEPT ![walk.dst] = Append(@, CStart(lastPoint(mem, hdr[walk.src])))]
    /\ walk' = [walk EXCEPT !.status = "ready"]
    /\ UNCHANGED <<str, clears, pt, kk, res, cnt>>

\* entry of addPathReversed: if len(q) == 0 { return }; i := len(q) - 1
RevCallAct ==
    /\ \/ walk.status = "ready"
       \/ walk.status = "idle" /\ hdr[walk.src].len = 0
    /\ walk' = [walk EXCEPT !.status = IF hdr[walk.src].len = 0 THEN "done" ELSE "loop",
                            !.i = hdr[walk.src].len - 1,
                            !.base = Len(log[walk.dst])]
    /\ UNCHANGED <<mem, hdr, log, str, clears, pt, kk, res, cnt>>

\* one iteration of the for loop
RevStepAct ==
    /\ walk.status = "loop"
    /\ LET q == hdr[walk.src]
           i == walk.i
       IN  IF ~InRange(q, i)
           THEN /\ walk' = [walk EXCEPT !.status = "indexpanic"]
                /\ UNCHANGED <<mem, hdr, log>>
           ELSE LET t == Load(mem, q, i)
                IN  IF t = 0
                    THEN /\ walk' = [walk EXCEPT !.status = "done"]
                         /\ UNCHANGED <<mem, hdr, log>>
                    ELSE IF t \notin {1, 2, 3}
                    THEN /\ walk' = [walk EXCEPT !.status = "badpath"]
                         /\ UNCHANGED <<mem, hdr, log>>
                    ELSE LET j == i - RevStride(t)
                         IN  IF ~InRange(q, j - 2)
                             THEN /\ walk' = [walk EXCEPT !.status = "indexpanic", !.i = j]
                                  /\ UNCHANGED <<mem, hdr, log>>
                             ELSE LET e  == RevCallFor(mem, q, j, t)
                                      w  == ApplyCall(mem, hdr[walk.dst], e)
                                      hs == [hdr EXCEPT ![walk.dst] = w.p]
                                  IN  /\ hdr' = hs
                                      /\ mem' = Collect(w.mem, Live(hs))
                                      /\ log' = [log EXCEPT ![walk.dst] = Append(@, e)]
                                      /\ walk' = [walk EXCEPT !.i = j]
    /\ UNCHANGED <<str, clears, pt, kk, res, cnt>>

\* the caller goes on to reverse the Path it has just produced: r into t
NextRoundAct ==
    /\ walk.status = "done"
    /\ walk.src = "q"
    /\ walk' = [status |-> "idle", src |-> "r", dst |-> "t", i |-> 0, base |-> 0]
    /\ UNCHANGED <<mem, hdr, log, str, clears, pt, kk, res, cnt>>

\* SpecRev: q is built, reversed into r, and r is reversed into t
Building == walk = IdleWalk

NextRev ==
    \/ Building /\ StartAct("q", RevPts, MaxRevLen)
    \/ Building /\ Add1Act("q", RevPts, MaxRevLen)
    \/ Building /\ Add2Act("q", RevPts, MaxRevLen)
    \/ Building /\ Add3Act("q", RevPts, MaxRevLen)
    \/ TargetAct
    \/ RevCallAct
    \/ RevStepAct
    \/ NextRoundAct

SpecRev == Init /\ [][NextRev]_vars

\* SpecWalk: one traversal of a Path q of any number of contours; the loop of
\* addPathReversed runs on once it is entered
NextWalk ==
    \/ Building /\ StartAct("q", PathPts, MaxRevLen)
    \/ Building /\ Add1Act("q", PathPts, MaxRevLen)
    \/ Building /\ Add2Act("q", PathPts, MaxRevLen)
    \/ Building /\ Add3Act("q", PathPts, MaxRevLen)
    \/ TargetAct
    \/ RevCallAct
    \/ RevStepAct

SpecWalk == Init /\ [][NextWalk]_vars /\ WF_vars(RevStepAct)

----------------------------------------------------------------------------
(* Specification SpecRaw: Paths written by hand, some with a tag the code does
   not know *)

\* a record written by hand
CRaw(rec) == [op |-> "Raw", args |-> <<>>, q |-> rec]

BadTags == {4, -1}
BadPayloads == {<<>>, <<7, 7>>, <<0, 1, 2, 3>>}
BadRecords == {<<CRaw(<<t>> \o pl \o <<t>>)>> : t \in BadTags, pl \in BadPayloads}

RawBefore == { <<>>, <<CStart(PA)>>, <<CStart(PB), CAdd1(PA)>>, <<CStart(PA), CAdd3(PB, PA, PB)>> }
RawAfter == { <<>>, <<CAdd1(PB)>>, <<CAdd2(PA, PB), CAdd3(PA, PA, PB)>>, <<CStart(PB), CAdd1(PA)>> }
RawLogs == {a \o b \o c : a \in RawBefore, b \in BadRecords \cup {<<>>}, c \in RawAfter}

\* the scalars of the records of l
RECURSIVE Encode(_)
Encode(l) ==
    IF l = <<>> THEN <<>>
    ELSE (IF Head(l).op = "Raw" THEN Head(l).q ELSE Built(<<Head(l)>>)) \o Encode(Tail(l))

InitRaw ==
    /\ \E l \in RawLogs :
         LET w == ArgPath(EmptyHeap, Encode(l))
         IN  /\ mem = w.mem
             /\ hdr = [x \in Names |-> IF x = "q" THEN w.p ELSE NilPath]
             /\ log = [x \in Names |-> IF x = "q" THEN l ELSE <<>>]
    /\ str = NoResult
    /\ clears = 0
    /\ walk = IdleWalk
    /\ pt = Pt(0, 0) /\ kk = 0 /\ res = NoResult /\ cnt = 0

NextRaw ==
    \/ StringAct("q")
    \/ TargetAct
    \/ RevCallAct
    \/ RevStepAct

SpecRaw == InitRaw /\ [][NextRaw]_vars

----------------------------------------------------------------------------
(* Point arithmetic.  Fix32 is int32: a product of two Fix32 wraps modulo
   2^32.  TLC evaluates on 32-bit integers itself, so the wrapped product is
   computed on 16-bit halves, with every intermediate below 2^31. *)

Lo16(a) == a % 65536
Hi16(a) == (a \div 65536) % 65536

\* (x * y) % 2^16 and (x * y) \div 2^16 for x, y in 0..65535
MulMod16(x, y) == (x * (y % 256) + ((x * (y \div 256)) % 256) * 256) % 65536
MulHi16(x, y) == ((x * (y % 256)) \div 256 + x * (y \div 256)) \div 256

\* a * b in int32
MulWrap32(a, b) ==
    LET r0 == MulMod16(Lo16(a), Lo16(b))
        r1 == (MulHi16(Lo16(a), Lo16(b)) + MulMod16(Hi16(a), Lo16(b))
                  + MulMod16(Lo16(a), Hi16(b))) % 65536
    IN  IF r1 >= 32768 THEN (r1 - 65536) * 65536 + r0 ELSE r1 * 65536 + r0

\* func (p Point) Mul(k Fix32) Point
Mul(p, k) == Pt(Quot(MulWrap32(p.X, k), 256), Quot(MulWrap32(p.Y, k), 256))

\* mutant of Rot45CW: 180/256 for 181/256
Rot45CWBy180(p) == Pt(Quot((p.X - p.Y) * 180, 256), Quot((p.X + p.Y) * 180, 256))

\* func (p Point) Rot45CW() Point.  The int64 products are exact; for the
\* coordinates of NumCoords they and the results fit in 32 bits, so that
\* Fix32(qx) changes nothing.
Rot45CW(p) == Pt(Quot((p.X - p.Y) * 181, 256), Quot((p.X + p.Y) * 181, 256))

\* Specification SpecNum: one Point, scaled once or rotated step by step
NumCoords == {-8388608, -1000000, -2999, -256, -4, 0, 3, 255, 1024, 100000, 5000000, 8388608}
NumScalars == {-256, 3, 128, 256, 300}

\* |x| + |y| small enough for the products by 181 to fit TLC's integers
Abs(x) == IF x < 0 THEN -x ELSE x
RotSafe(p) == Abs(p.X) + Abs(p.Y) <= 11000000

InitNum ==
    /\ mem = EmptyHeap
    /\ hdr = [x \in Names |-> NilPath]
    /\ log = [x \in Names |-> <<>>]
    /\ str = NoResult
    /\ clears = 0
    /\ walk = IdleWalk
    /\ pt \in {Pt(x, y) : x, y \in NumCoords}
    /\ kk \in NumScalars
    /\ res = NoResult
    /\ cnt = 0

MulAct ==
    /\ res = NoResult
    /\ res' = [status |-> "Mul", v |-> Mul(pt, kk)]
    /\ UNCHANGED <<mem, hdr, log, str, clears, walk, pt, kk, cnt>>

Rot45CWAct ==
    /\ RotSafe(pt)
    /\ res.status \in {"none", "Rot"}
    /\ cnt < MaxRot
    /\ res' = [status |-> "Rot", v |-> Rot45CW(IF res = NoResult THEN pt ELSE res.v)]
    /\ cnt' = cnt + 1
    /\ UNCHANGED <<mem, hdr, log, str, clears, walk, pt, kk>>

NextNum == MulAct \/ Rot45CWAct

SpecNum == InitNum /\ [][NextNum]_vars

----------------------------------------------------------------------------
(* Properties of the encoding *)

RecLen(t) == CASE t = 0 -> 4 [] t = 1 -> 4 [] t = 2 -> 6 [] t = 3 -> 8

\* b splits exactly into records, each with a tag of 0..3 at both of its ends
RECURSIVE Framed(_)
Framed(b) ==
    \/ b = <<>>
    \/ /\ b[1] \in 0..3
       /\ Len(b) >= RecLen(b[1])
       /\ b[RecLen(b[1])] = b[1]
       /\ Framed(SubSeq(b, RecLen(b[1]) + 1, Len(b)))

WellFormed(b) == Framed(b) /\ (b # <<>> => b[1] = 0)

\* the calls of l that append something
Appending(l) == SelectSeq(l, LAMBDA e : CallLen(e) > 0)

\* the first record appended is a Start, and every Path appended whole is well-formed
StartsFirst(l) ==
    /\ \A j \in 1..Len(l) : l[j].op = "AddPath" => WellFormed(l[j].q)
    /\ Appending(l) # <<>> => Appending(l)[1].op \in {"Start", "AddPath"}

\* C1: whenever the first record appended since the Path was last empty is a
\* Start (or comes from a well-formed Path appended whole), the buffer splits
\* exactly into records of length 4, 4, 6, 8 for the tags 0, 1, 2, 3, each with
\* its tag at both ends, and its first record is a tag-0 record.
C1_WellFormed == StartsFirst(log["p"]) => WellFormed(Contents(mem, hdr["p"]))

\* a Path of three records or more, built over the storage an earlier Clear
\* left behind, part of it appended by AddPath
C1_Witness ==
    /\ clears = 1
    /\ hdr["p"].len >= 14
    /\ StartsFirst(log["p"])
    /\ \E j \in 1..Len(log["p"]) : log["p"][j].op = "AddPath" /\ log["p"][j].q # <<>>
    /\ \E j \in 1..Len(log["p"]) : log["p"][j].op = "Add1"
    /\ WellFormed(Contents(mem, hdr["p"]))

\* C5: after a Clear, the Path holds exactly what a brand-new Path holds after
\* the calls made since that Clear: same length, same elements.
C5_ClearIsFresh ==
    clears >= 1 =>
        /\ hdr["p"].len = Replay(log["p"]).p.len
        /\ Contents(mem, hdr["p"]) = Built(log["p"])

\* the Path was long, was Cleared, and was rebuilt shorter: the storage behind
\* its length still holds the old values
C5_Witness ==
    /\ clears = 1
    /\ Len(log["p"]) >= 2
    /\ hdr["p"].len >= 8
    /\ \E i \in (hdr["p"].len + 1)..CapOf(mem, hdr["p"]) : mem[hdr["p"].ptr][i] # 0
    /\ Contents(mem, hdr["p"]) = Built(log["p"])

\* the token String() prints for a builder call
KindOf(e) ==
    CASE e.op = "Start" -> "S0" [] e.op = "Add1" -> "A1" [] e.op = "Add2" -> "A2"
      [] e.op = "Add3" -> "A3"
CoordsOf(e) ==
    [j \in 1..(2 * Len(e.args)) |->
        IF j % 2 = 1 THEN e.args[(j + 1) \div 2].X ELSE e.args[j \div 2].Y]
TokenOf(e) == [kind |-> KindOf(e), coords |-> [j \in 1..(2 * Len(e.args)) |-> Fix32String(CoordsOf(e)[j])]]

\* C6: String() on a Path built by Start/Add1/Add2/Add3 calls ends normally with
\* its index on len(p) and prints one token per call, in call order, of the
\* call's kind and with the call's coordinates in argument order.
C6_StringRoundTrip ==
    str # NoResult =>
        /\ str.status = "ok"
        /\ str.i = hdr["p"].len
        /\ str.toks = [j \in 1..Len(log["p"]) |-> TokenOf(log["p"][j])]

\* String() was called on Start; Add1; Add2; Add3
C6_Witness ==
    /\ str # NoResult
    /\ Len(log["p"]) = 4
    /\ [j \in 1..4 |-> log["p"][j].op] = <<"Start", "Add1", "Add2", "Add3">>
    /\ Len(str.toks) = 4
    /\ str.toks[3] = [kind |-> "A2", coords |-> <<Fix32String(PB.X), Fix32String(PB.Y), Fix32String(PA.X), Fix32String(PA.Y)>>]

\* the step is p.AddPath(y)
IsCat(y) == log'["p"] = Append(log["p"], CAddPath(Contents(mem, hdr[y])))

\* the calls of l made directly on a copy of the Path holding buf
OntoCopy(buf, l) ==
    LET c == ArgPath(EmptyHeap, buf)
        w == ApplyAll(c.mem, c.p, l, {})
    IN  Contents(w.mem, w.p)

\* C4: p.AddPath(y) appends y's elements to p's, which is what y's builder calls
\* made directly on a copy of p give; p.AddPath(q); p.AddPath(r) leaves
\* old p ++ q ++ r, which is what q's and then r's builder calls on a copy of
\* the old p give; and no call on p changes the header or any element of q or r.
C4_AddPathByValue ==
    [][/\ \A y \in {"q", "r"} :
            /\ hdr'[y] = hdr[y]
            /\ Contents(mem', hdr'[y]) = Contents(mem, hdr[y])
       /\ \A y \in {"q", "r"} :
            IsCat(y) =>
                /\ Contents(mem', hdr'["p"]) = Contents(mem, hdr["p"]) \o Contents(mem, hdr[y])
                /\ Contents(mem', hdr'["p"]) = OntoCopy(Contents(mem, hdr["p"]), log[y])
       /\ \A y1, y2 \in {"q", "r"} :
            (/\ IsCat(y2)
             /\ log["p"] # <<>>
             /\ log["p"][Len(log["p"])] = CAddPath(Contents(mem, hdr[y1]))) =>
                LET old == SubSeq(Contents(mem, hdr["p"]), 1, hdr["p"].len - hdr[y1].len)
                IN  /\ Contents(mem', hdr'["p"])
                         = old \o Contents(mem, hdr[y1]) \o Contents(mem, hdr[y2])
                    /\ Contents(mem', hdr'["p"]) = OntoCopy(old, log[y1] \o log[y2])
      ]_vars

\* p.Start; p.AddPath(q); p.AddPath(r) with q and r different and not empty,
\* the second AddPath having moved p to new storage
C4_Witness ==
    /\ Len(log["p"]) = 3
    /\ log["p"][1].op = "Start"
    /\ log["p"][2] = CAddPath(Contents(mem, hdr["q"]))
    /\ log["p"][3] = CAddPath(Contents(mem, hdr["r"]))
    /\ hdr["q"].len = 10 /\ hdr["r"].len = 4
    /\ hdr["p"].len = 18 /\ CapOf(mem, hdr["p"]) > 18
    /\ Contents(mem, hdr["q"]) = Built(log["q"])
    /\ Contents(mem, hdr["r"]) = Built(log["r"])

----------------------------------------------------------------------------
(* Properties of the reverse traversal *)

\* the point a builder call ends at
EndOf(e) == e.args[Len(e.args)]

\* the mirror of the segment e that began at the point prev
Mirror(e, prev) ==
    CASE e.op = "Add1" -> CAdd1(prev)
      [] e.op = "Add2" -> CAdd2(e.args[1], prev)
      [] e.op = "Add3" -> CAdd3(e.args[2], e.args[1], prev)

\* the contour c = Start, s1, ..., sn backward: the mirrors of sn, ..., s1
Reversed(c) == [j \in 1..(Len(c) - 1) |-> Mirror(c[Len(c) + 1 - j], EndOf(c[Len(c) - j]))]

SingleContour(l) == l # <<>> /\ l[1].op = "Start" /\ \A k \in 2..Len(l) : l[k].op # "Start"

\* the calls from the last Start of l on
LastContour(l) ==
    LET k == CHOOSE k \in 1..Len(l) : l[k].op = "Start" /\ \A n \in (k + 1)..Len(l) : l[n].op # "Start"
    IN  SubSeq(l, k, Len(l))

\* the calls addPathReversed has made on its target so far
Emitted == SubSeq(log[walk.dst], walk.base + 1, Len(log[walk.dst]))

\* C2: for a single contour Start(P0), s1, ..., sn, addPathReversed returns
\* having made exactly the n calls that mirror sn, ..., s1 and no Start: a line
\* ending at Pi gives Add1(P(i-1)), a quadratic with control C gives
\* Add2(C, P(i-1)), a cubic with controls C1, C2 gives Add3(C2, C1, P(i-1)).
C2_ReversedCalls ==
    (walk.status = "done" /\ SingleContour(log[walk.src])) =>
        Emitted = Reversed(log[walk.src])

\* Start(A); Add1(B); Add2(C, D) has given Add2(C, B) then Add1(A)
C2_Witness ==
    /\ walk.status = "done"
    /\ walk.src = "q"
    /\ log["q"] = <<CStart(PA), CAdd1(PB), CAdd2(PC, PA)>>
    /\ Emitted = <<CAdd2(PC, PB), CAdd1(PA)>>

\* C3: for a single contour q of at least one segment, r started at q's last
\* point and given q reversed, then t started at r's last point and given r
\* reversed: t's buffer is q's buffer, element for element.
C3_Involution ==
    (/\ walk.status = "done"
     /\ walk.src = "r"
     /\ SingleContour(log["q"])
     /\ Len(log["q"]) >= 2) =>
        /\ hdr["t"].len = hdr["q"].len
        /\ Contents(mem, hdr["t"]) = Contents(mem, hdr["q"])

\* a contour with a cubic and a line has gone through both reversals
C3_Witness ==
    /\ walk.status = "done"
    /\ walk.src = "r"
    /\ log["q"] = <<CStart(PA), CAdd3(PB, PC, PA), CAdd1(PC)>>
    /\ log["r"] = <<CStart(PC), CAdd1(PA), CAdd3(PC, PB, PA)>>
    /\ log["t"] = log["q"]

\* what C10 says of each state of a traversal of a well-formed Path
C10_Safe ==
    WellFormed(Contents(mem, hdr[walk.src])) =>
        /\ walk.status \notin {"indexpanic", "badpath"}
        /\ walk.status = "loop" => InRange(hdr[walk.src], walk.i)
        /\ hdr[walk.src].len = 0 => Emitted = <<>>
        /\ (walk.status \in {"loop", "done"} /\ hdr[walk.src].len > 0) =>
               LET all == Reversed(LastContour(log[walk.src]))
               IN  /\ Len(Emitted) <= Len(all)
                   /\ Emitted = SubSeq(all, 1, Len(Emitted))
                   /\ walk.status = "done" => Emitted = all

\* C10: on a well-formed Path, of several contours or none, addPathReversed
\* reads only indices inside the Path, never panics, makes calls only for the
\* segment records after the last Start record (none when the Path is empty or
\* ends in a Start record), and returns.
C10_Terminates ==
    /\ []C10_Safe
    /\ (walk.status = "loop" /\ WellFormed(Contents(mem, hdr[walk.src]))) ~> (walk.status = "done")

\* a Path of two contours: only the segment of the second one was replayed
C10_Witness ==
    /\ walk.status = "done"
    /\ walk.src = "q"
    /\ log["q"] = <<CStart(PA), CAdd2(PA, PA), CStart(PA), CAdd1(PA)>>
    /\ Emitted = <<CAdd1(PA)>>

----------------------------------------------------------------------------
(* Properties of the hand-written Paths *)

HasBadRecord(l) == \E k \in 1..Len(l) : l[k].op = "Raw"

\* the bad record of l comes after every Start of l
BadInLastContour(l) ==
    \E k \in 1..Len(l) : l[k].op = "Raw" /\ \A n \in (k + 1)..Len(l) : l[n].op # "Start"

\* index of the closing tag of the bad record of l
BadPos(l) ==
    LET k == CHOOSE k \in 1..Len(l) : l[k].op = "Raw"
    IN  Len(Encode(SubSeq(l, 1, k))) - 1

\* C7: on a buffer with a record that carries, at both of its ends, a tag that
\* is not 0, 1, 2 or 3, String() ends in a panic; addPathReversed over the contour that holds the record never
\* returns: it walks down to the record's closing tag, inside the buffer, and
\* panics on that tag, or panics one step earlier on an index below 0 when the
\* record is the first of the buffer and shorter than the point read from it.
C7_BadTagPanics ==
    /\ (HasBadRecord(log["q"]) /\ str # NoResult) => str.status = "panic"
    /\ BadInLastContour(log["q"]) =>
          /\ walk.status \in {"idle", "ready", "loop", "badpath", "indexpanic"}
          /\ walk.status = "loop" => (InRange(hdr["q"], walk.i) /\ walk.i >= BadPos(log["q"]))
          /\ walk.status = "badpath" => walk.i = BadPos(log["q"])
          /\ walk.status = "indexpanic" => (walk.i = BadPos(log["q"]) /\ walk.i < 2)

\* both have panicked on a bad record that two good segment records follow
C7_Witness ==
    /\ log["q"] = <<CStart(PA)>> \o <<CRaw(<<4, 7, 7, 4>>)>> \o <<CAdd2(PA, PB), CAdd3(PA, PA, PB)>>
    /\ str # NoResult /\ str.status = "panic" /\ str.i = 4
    /\ walk.status = "badpath"
    /\ Len(log["r"]) = 3

----------------------------------------------------------------------------
(* Properties of the Point arithmetic *)

MaxInt32 == 2147483647

\* trunc(x * k / 256) computed without a product that could overflow:
\* |x| = xh * 256 + xl and |k| = kh * 256 + kl give
\* |x| * |k| \div 256 = xh * kh * 256 + xh * kl + xl * kh + (xl * kl) \div 256
ExactFits(x, k) ==
    LET xh == Abs(x) \div 256  xl == Abs(x) % 256
        kh == Abs(k) \div 256  kl == Abs(k) % 256
    IN  /\ (xh = 0 \/ kh <= (MaxInt32 \div 256) \div xh)
        /\ xh * kl <= MaxInt32 - xh * kh * 256
        /\ xl * kh <= MaxInt32 - xh * kh * 256 - xh * kl
        /\ (xl * kl) \div 256 <= MaxInt32 - xh * kh * 256 - xh * kl - xl * kh

Exact(x, k) ==
    LET xh == Abs(x) \div 256  xl == Abs(x) % 256
        kh == Abs(k) \div 256  kl == Abs(k) % 256
        q  == xh * kh * 256 + xh * kl + xl * kh + (xl * kl) \div 256
    IN  IF (x < 0) = (k < 0) THEN q ELSE -q

\* C8: whenever the exact quotient trunc(x * k / 256) fits in int32, Mul(k)
\* returns it, for X and for Y.
C8_MulExact ==
    res.status = "Mul" =>
        /\ ExactFits(pt.X, kk) => res.v.X = Exact(pt.X, kk)
        /\ ExactFits(pt.Y, kk) => res.v.Y = Exact(pt.Y, kk)

\* C9 as stated: eight Rot45CW calls bring each coordinate back to within 1
\* sub-unit of where it was.
C9_WithinOne ==
    (res.status = "Rot" /\ cnt = 8) =>
        /\ Abs(res.v.X - pt.X) <= 1
        /\ Abs(res.v.Y - pt.Y) <= 1

\* C9 as amended: for a Point with |X| + |Y| <= 11000000, eight Rot45CW calls
\* bring each coordinate c back to within 12 + |c| / 1024 sub-units of where
\* it was.
C9_WithinShrink ==
    (RotSafe(pt) /\ res.status = "Rot" /\ cnt = 8) =>
        /\ Abs(res.v.X - pt.X) <= 12 + Abs(pt.X) \div 1024
        /\ Abs(res.v.Y - pt.Y) <= 12 + Abs(pt.Y) \div 1024

\* eight calls were made on a Point of some size, and it came back shorter
C9_Witness ==
    /\ res.status = "Rot" /\ cnt = 8
    /\ pt = Pt(100000, -2999)
    /\ Abs(res.v.X - pt.X) > 1
    /\ Abs(res.v.X) < Abs(pt.X)

====
